---- MODULE Spec2Model ----
(***************************************************************************)
(* Model of the Ethereum-style read API of xenminer (ethapi/eth.py, and    *)
(* its earlier draft ethapi/api.py, which repeats the block operations     *)
(* line for line).  The two SQL tables are the state; every public method  *)
(* is a pure function of the tables and is applied by one action, which    *)
(* records the call and what it returned.                                  *)
(*                                                                         *)
(* Python strings are sequences of one-character strings, so that          *)
(* str.replace, is_hex, int(s, 16), bytes.fromhex, hex() and HexBytes()    *)
(* are computed and not assumed.                                           *)
(***************************************************************************)
EXTENDS Integers, Sequences, FiniteSets, Bags, TLC

VARIABLES blockchain, account_balances, lastCall, lastResult

vars == <<blockchain, account_balances, lastCall, lastResult>>

(***************************************************************************)
(* Bounds of the model.                                                    *)
(***************************************************************************)
MaxBlocks == 3

MaxEntries == 2

(***************************************************************************)
(* Values the model draws from.                                            *)
(***************************************************************************)
GENESIS == <<"g", "e", "n", "e", "s", "i", "s">>

EARLIEST == <<"e", "a", "r", "l", "i", "e", "s", "t">>

LATEST == <<"l", "a", "t", "e", "s", "t">>

PENDING == <<"p", "e", "n", "d", "i", "n", "g">>

Prefix0x == <<"0", "x">>

\* hex digests a block can carry (stored without prefix, even length)
HashOrder == << <<"a", "a">>, <<"b", "b">>, <<"1", "0">>, <<"0", "a", "c", "3">> >>

Hashes == { HashOrder[i] : i \in DOMAIN HashOrder }

\* a digest no block of the model carries
UnknownHash == <<"f", "f">>

Timestamps == {1000, 1010}

Accounts == {"acctA", "acctB"}

\* movements the node can record: native currency is type 1
Movements ==
    { [account |-> "acctA", amount |-> 1, currency_type |-> 1],
      [account |-> "acctA", amount |-> 26, currency_type |-> 1],
      [account |-> "acctA", amount |-> -1, currency_type |-> 1],
      [account |-> "acctA", amount |-> 1, currency_type |-> 2],
      [account |-> "acctB", amount |-> 1, currency_type |-> 1] }

(***************************************************************************)
(* Python values: the identifiers a caller passes and the results.         *)
(***************************************************************************)
PyNone == [t |-> "none"]

PyInt(n) == [t |-> "int", v |-> n]

PyStr(s) == [t |-> "str", v |-> s]

None == [kind |-> "None"]

Raise == [kind |-> "raise"]

IntResult(n) == [kind |-> "int", v |-> n]

BytesResult(b) == [kind |-> "bytes", v |-> b]

(***************************************************************************)
(* String and number conversions of Python and its libraries.              *)
(***************************************************************************)
HexDigits == <<"0", "1", "2", "3", "4", "5", "6", "7", "8", "9", "a", "b", "c", "d", "e", "f">>

IsHexDigit(c) == \E i \in DOMAIN HexDigits : HexDigits[i] = c

HexVal(c) == (CHOOSE i \in DOMAIN HexDigits : HexDigits[i] = c) - 1

AllHexDigits(s) == \A i \in DOMAIN s : IsHexDigit(s[i])

HasPrefix0x(s) == Len(s) >= 2 /\ s[1] = "0" /\ s[2] = "x"

StripPrefix0x(s) == IF HasPrefix0x(s) THEN SubSeq(s, 3, Len(s)) ELSE s

\* positional value of a digit string in the given base
RECURSIVE DigitsValue(_, _)
DigitsValue(s, base) ==
    IF s = <<>> THEN 0
    ELSE DigitsValue(SubSeq(s, 1, Len(s) - 1), base) * base + HexVal(s[Len(s)])

\* digit string of n >= 0 in the given base, no leading zeros ("0" for 0)
RECURSIVE ToDigits(_, _)
ToDigits(n, base) ==
    IF n < base THEN <<HexDigits[n + 1]>>
    ELSE ToDigits(n \div base, base) \o <<HexDigits[(n % base) + 1]>>

\* eth_utils.is_hex on a str: non-empty, optional 0x, then hex digits only
is_hex(s) == s # <<>> /\ AllHexDigits(StripPrefix0x(s))

\* int(s, 16) on a string is_hex accepts: ValueError when no digit is left
IntBase16(s) ==
    IF StripPrefix0x(s) = <<>> \/ ~AllHexDigits(StripPrefix0x(s))
    THEN [ok |-> FALSE]
    ELSE [ok |-> TRUE, v |-> DigitsValue(StripPrefix0x(s), 16)]

\* str.replace("0x", ""): every non-overlapping occurrence, left to right
RECURSIVE Replace0x(_)
Replace0x(s) ==
    IF Len(s) < 2 THEN s
    ELSE IF HasPrefix0x(s) THEN Replace0x(SubSeq(s, 3, Len(s)))
    ELSE <<s[1]>> \o Replace0x(Tail(s))

\* bytes.fromhex / HexBytes.fromhex: pairs of hex digits, else ValueError
RECURSIVE PairsToBytes(_)
PairsToBytes(s) ==
    IF s = <<>> THEN <<>>
    ELSE <<HexVal(s[1]) * 16 + HexVal(s[2])>> \o PairsToBytes(SubSeq(s, 3, Len(s)))

FromHex(s) ==
    IF AllHexDigits(s) /\ Len(s) % 2 = 0
    THEN [ok |-> TRUE, v |-> PairsToBytes(s)]
    ELSE [ok |-> FALSE]

\* SQLite strftime('%s', timestamp): the epoch seconds as decimal text
Strftime(t) == ToDigits(t, 10)

\* int(text) on the decimal text of a row
IntBase10(s) == DigitsValue(s, 10)

(***************************************************************************)
(* The blockchain table.  A row is [id, timestamp, block_hash, prev_hash]; *)
(* the table is the sequence of its rows in id order, ids from 1.          *)
(***************************************************************************)
Rows(bc) == { bc[i] : i \in DOMAIN bc }

\* ORDER BY id DESC LIMIT 1
NewestRow(bc) == CHOOSE r \in Rows(bc) : \A q \in Rows(bc) : q.id <= r.id

\* first row, in rowid order, of a WHERE that the set `rows` satisfies
FetchOne(rows) == CHOOSE r \in rows : \A q \in rows : r.id <= q.id

(***************************************************************************)
(* EthApi: the block operations.                                           *)
(***************************************************************************)
block_number_keeps_id(bc) ==
    IF Rows(bc) = {} THEN IntResult(0) ELSE IntResult(NewestRow(bc).id)

\* SELECT id - 1 ... ORDER BY id DESC LIMIT 1; 0 when the table is empty
block_number(bc) ==
    IF Rows(bc) = {} THEN IntResult(0) ELSE IntResult(NewestRow(bc).id - 1)

SanitizeHashKeepsPrefix(s) == s

\* block_hash.replace("0x", "")
SanitizeHash(s) == Replace0x(s)

BlockDataParentIsOwnHash(row) ==
    IF ~FromHex(row.block_hash).ok THEN Raise
    ELSE [kind |-> "block",
          number |-> row.id - 1,
          timestamp |-> IntBase10(Strftime(row.timestamp)),
          hash |-> FromHex(row.block_hash).v,
          parentHash |-> FromHex(row.block_hash).v]

\* the BlockData built from a fetched row; parentHash is left out for genesis
BlockData(row) ==
    IF ~FromHex(row.block_hash).ok THEN Raise
    ELSE IF row.prev_hash = GENESIS
    THEN [kind |-> "block",
          number |-> row.id - 1,
          timestamp |-> IntBase10(Strftime(row.timestamp)),
          hash |-> FromHex(row.block_hash).v]
    ELSE IF ~FromHex(row.prev_hash).ok THEN Raise
    ELSE [kind |-> "block",
          number |-> row.id - 1,
          timestamp |-> IntBase10(Strftime(row.timestamp)),
          hash |-> FromHex(row.block_hash).v,
          parentHash |-> FromHex(row.prev_hash).v]

\* truthiness of the argument as `if not block_hash` sees it
Falsy(x) ==
    \/ x.t = "none"
    \/ x.t = "str" /\ x.v = <<>>
    \/ x.t = "int" /\ x.v = 0

get_block_by_hash(bc, block_hash) ==
    IF Falsy(block_hash) THEN None
    ELSE IF block_hash.t # "str" THEN Raise
    ELSE LET matches == { r \in Rows(bc) : r.block_hash = SanitizeHash(block_hash.v) }
         IN  IF matches = {} THEN None ELSE BlockData(FetchOne(matches))

StorageKeyIsNumber(n) == n

\* the id bound to WHERE id = :number
StorageKey(n) == n + 1

get_block_hash_by_number_unchecked(bc, number) ==
    LET n == IF number = PyStr(EARLIEST) THEN PyInt(0) ELSE number
    IN  IF n = PyStr(LATEST)
        THEN IF Rows(bc) = {} THEN [t |-> "raise"]
             ELSE PyStr(NewestRow(bc).block_hash)
        ELSE IF n.t # "int" THEN [t |-> "raise"]
        ELSE LET matches == { r \in Rows(bc) : r.id = StorageKey(n.v) }
             IN  IF matches = {} THEN [t |-> "raise"]
                 ELSE PyStr(FetchOne(matches).block_hash)

get_block_hash_by_number_oldest(bc, number) ==
    LET n == IF number = PyStr(EARLIEST) THEN PyInt(0) ELSE number
    IN  IF n = PyStr(LATEST)
        THEN IF Rows(bc) = {} THEN PyNone
             ELSE PyStr(FetchOne(Rows(bc)).block_hash)
        ELSE IF n.t # "int" THEN [t |-> "raise"]
        ELSE LET matches == { r \in Rows(bc) : r.id = StorageKey(n.v) }
             IN  IF matches = {} THEN PyNone
                 ELSE PyStr(FetchOne(matches).block_hash)

get_block_hash_by_number_from_head(bc, number) ==
    LET n == IF number = PyStr(EARLIEST) THEN PyInt(0) ELSE number
    IN  IF n = PyStr(LATEST)
        THEN IF Rows(bc) = {} THEN PyNone
             ELSE PyStr(NewestRow(bc).block_hash)
        ELSE IF n.t # "int" THEN [t |-> "raise"]
        ELSE LET matches == { r \in Rows(bc) : r.id = Len(bc) - n.v }
             IN  IF matches = {} THEN PyNone
                 ELSE PyStr(FetchOne(matches).block_hash)

\* "earliest" is 0; "latest" is the newest row; else the row with id n + 1
\* (n + 1 on a str or None is a TypeError)
get_block_hash_by_number(bc, number) ==
    LET n == IF number = PyStr(EARLIEST) THEN PyInt(0) ELSE number
    IN  IF n = PyStr(LATEST)
        THEN IF Rows(bc) = {} THEN PyNone
             ELSE PyStr(NewestRow(bc).block_hash)
        ELSE IF n.t # "int" THEN [t |-> "raise"]
        ELSE LET matches == { r \in Rows(bc) : r.id = StorageKey(n.v) }
             IN  IF matches = {} THEN PyNone
                 ELSE PyStr(FetchOne(matches).block_hash)

eth_get_block_by_number(bc, number) ==
    LET isHexStr == number.t = "str" /\ is_hex(number.v)
    IN  IF isHexStr /\ ~IntBase16(number.v).ok THEN Raise
        ELSE LET n == IF isHexStr THEN PyInt(IntBase16(number.v).v)
                      ELSE number
                 h == get_block_hash_by_number(bc, n)
             IN  IF h.t = "raise" THEN Raise ELSE get_block_by_hash(bc, h)

(***************************************************************************)
(* The account_balances table: a bag of rows                               *)
(* [account, amount, block_id, currency_type].                             *)
(***************************************************************************)
RECURSIVE SumAmountTimes10(_, _)
SumAmountTimes10(rows, ab) ==
    IF rows = {} THEN 0
    ELSE LET e == CHOOSE x \in rows : TRUE
         IN  e.amount * 10 * CopiesIn(e, ab) + SumAmountTimes10(rows \ {e}, ab)

\* SELECT sum(amount * 10) ... WHERE account, block_id <=, currency_type = 1
\* (NULL when no row qualifies)
SelectBalanceSum(ab, address, number) ==
    LET rows == { e \in BagToSet(ab) :
                    /\ e.account = address
                    /\ e.block_id <= number
                    /\ e.currency_type = 1 }
    IN  IF rows = {} THEN [null |-> TRUE]
        ELSE [null |-> FALSE, v |-> SumAmountTimes10(rows, ab)]

\* hex(n) of Python
Hex(n) ==
    IF n < 0 THEN <<"-">> \o Prefix0x \o ToDigits(0 - n, 16)
    ELSE Prefix0x \o ToDigits(n, 16)

\* HexBytes(str): drop 0x, left-pad an odd length, unhexlify
HexBytes(s) ==
    LET digits == StripPrefix0x(s)
        padded == IF Len(s) % 2 = 1 THEN <<"0">> \o digits ELSE digits
    IN  IF FromHex(padded).ok THEN BytesResult(FromHex(padded).v) ELSE Raise

\* big-endian value of a byte string
RECURSIVE BytesValue(_)
BytesValue(b) ==
    IF b = <<>> THEN 0
    ELSE BytesValue(SubSeq(b, 1, Len(b) - 1)) * 256 + b[Len(b)]

get_block_number_from_identifier_always_head(bc, block_identifier) ==
    IF block_identifier = PyStr(EARLIEST) THEN [ok |-> TRUE, v |-> 0]
    ELSE [ok |-> TRUE, v |-> block_number(bc).v]

get_block_number_from_identifier(bc, block_identifier) ==
    IF block_identifier = PyStr(EARLIEST) THEN [ok |-> TRUE, v |-> 0]
    ELSE IF block_identifier.t = "str" /\ is_hex(block_identifier.v)
    THEN IntBase16(block_identifier.v)
    ELSE [ok |-> TRUE, v |-> block_number(bc).v]

get_balance(bc, ab, address, block_identifier) ==
    LET number == get_block_number_from_identifier(bc, block_identifier)
    IN  IF ~number.ok THEN Raise
        ELSE LET row == SelectBalanceSum(ab, address, number.v)
             IN  IF row.null \/ row.v = 0 THEN HexBytes(Hex(0))
                 ELSE HexBytes(Hex(row.v))

(***************************************************************************)
(* EthApi: the transaction stubs.                                          *)
(***************************************************************************)
get_transaction_by_hash(tx_hash) == IF Falsy(tx_hash) THEN None ELSE None

get_transaction_receipt(tx_hash) == IF Falsy(tx_hash) THEN None ELSE None

get_transaction_count(address, block_identifier) == IntResult(0)

get_transaction_hash_finds_block_hash(number, index) == PyStr(<<"a", "a">>)

get_transaction_hash_by_block_number_and_index(number, index) == PyNone

get_transaction_hash_by_block_hash_and_index(number, index) == PyNone

get_transaction_by_block_number_and_index(bc, number, index) ==
    get_block_by_hash(bc, get_transaction_hash_by_block_number_and_index(number, index))

get_transaction_by_block_hash_and_index(bc, number, index) ==
    get_block_by_hash(bc, get_transaction_hash_by_block_hash_and_index(number, index))

(***************************************************************************)
(* Inputs the callers of the model pass.                                   *)
(***************************************************************************)
HashInputs ==
    {PyNone, PyStr(<<>>), PyStr(UnknownHash), PyStr(Prefix0x \o UnknownHash)}
        \cup { PyStr(h) : h \in Hashes }
        \cup { PyStr(Prefix0x \o h) : h \in Hashes }

\* strings is_hex accepts: 0x-prefixed, bare decimal digits, bare "0x"
HexStringInputs ==
    { PyStr(<<"0", "x", "0">>), PyStr(<<"0", "x", "1">>), PyStr(<<"0", "x", "2">>),
      PyStr(<<"1">>), PyStr(<<"1", "0">>), PyStr(Prefix0x) }

TagInputs == { PyStr(EARLIEST), PyStr(LATEST), PyStr(PENDING) }

IntInputs == { PyInt(n) : n \in -1 .. MaxBlocks }

NumberInputs == IntInputs \cup TagInputs \cup HexStringInputs

TxHashInputs == { PyNone, PyStr(<<>>), PyStr(<<"a", "a">>), PyStr(<<"0", "x", "a", "a">>) }

TxBlockInputs == { PyInt(0), PyStr(<<"a", "a">>), PyStr(LATEST) }

TxIndexInputs == {0, 1}

(***************************************************************************)
(* State machine.  The tables are written by the node, outside the API:    *)
(* rows are only ever appended.  A call records itself, the size of the    *)
(* tables it read, and its result.                                         *)
(***************************************************************************)
StoreSize == <<Len(blockchain), BagCardinality(account_balances)>>

Call(op, args) == [op |-> op, args |-> args, at |-> StoreSize]

Init ==
    /\ blockchain = <<>>
    /\ account_balances = EmptyBag
    /\ lastCall = [op |-> "none", args |-> <<>>, at |-> <<0, 0>>]
    /\ lastResult = None

UsedHashes == { blockchain[i].block_hash : i \in DOMAIN blockchain }

\* the node appends a block: next id, a digest not seen before, a time not
\* before the previous block's, and the previous block's digest (or the
\* genesis marker) as prev_hash
AppendBlock(h, ts) ==
    /\ Len(blockchain) < MaxBlocks
    /\ h \notin UsedHashes
    /\ blockchain # <<>> => blockchain[Len(blockchain)].timestamp <= ts
    /\ blockchain' = Append(blockchain,
            [id |-> Len(blockchain) + 1,
             timestamp |-> ts,
             block_hash |-> h,
             prev_hash |-> IF blockchain = <<>> THEN GENESIS
                           ELSE blockchain[Len(blockchain)].block_hash])
    /\ UNCHANGED <<account_balances, lastCall, lastResult>>

\* the balance of (account, currency) as of storage key b, in stored units
RECURSIVE LedgerSum(_, _)
LedgerSum(rows, ab) ==
    IF rows = {} THEN 0
    ELSE LET e == CHOOSE x \in rows : TRUE
         IN  e.amount * CopiesIn(e, ab) + LedgerSum(rows \ {e}, ab)

LedgerBalance(ab, acct, cur, b) ==
    LedgerSum({ e \in BagToSet(ab) :
                  e.account = acct /\ e.currency_type = cur /\ e.block_id <= b }, ab)

\* the node records a movement of an existing block; no account is overdrawn
AppendBalance(m, bid) ==
    /\ BagCardinality(account_balances) < MaxEntries
    /\ bid \in 1 .. Len(blockchain)
    /\ LET entry == [account |-> m.account, amount |-> m.amount,
                     block_id |-> bid, currency_type |-> m.currency_type]
           ab == account_balances (+) SetToBag({entry})
       IN  /\ \A b \in bid .. MaxBlocks :
                 LedgerBalance(ab, m.account, m.currency_type, b) >= 0
           /\ account_balances' = ab
    /\ UNCHANGED <<blockchain, lastCall, lastResult>>

CallBlockNumber ==
    /\ lastCall' = Call("block_number", <<>>)
    /\ lastResult' = block_number(blockchain)
    /\ UNCHANGED <<blockchain, account_balances>>

CallGetBlockByHash(h) ==
    /\ lastCall' = Call("get_block_by_hash", <<h>>)
    /\ lastResult' = get_block_by_hash(blockchain, h)
    /\ UNCHANGED <<blockchain, account_balances>>

CallEthGetBlockByNumber(n) ==
    /\ lastCall' = Call("eth_get_block_by_number", <<n>>)
    /\ lastResult' = eth_get_block_by_number(blockchain, n)
    /\ UNCHANGED <<blockchain, account_balances>>

CallGetBalance(addr, id) ==
    /\ lastCall' = Call("get_balance", <<addr, id>>)
    /\ lastResult' = get_balance(blockchain, account_balances, addr, id)
    /\ UNCHANGED <<blockchain, account_balances>>

CallGetTransactionByHash(tx) ==
    /\ lastCall' = Call("get_transaction_by_hash", <<tx>>)
    /\ lastResult' = get_transaction_by_hash(tx)
    /\ UNCHANGED <<blockchain, account_balances>>

CallGetTransactionReceipt(tx) ==
    /\ lastCall' = Call("get_transaction_receipt", <<tx>>)
    /\ lastResult' = get_transaction_receipt(tx)
    /\ UNCHANGED <<blockchain, account_balances>>

CallGetTransactionCount(addr, id) ==
    /\ lastCall' = Call("get_transaction_count", <<addr, id>>)
    /\ lastResult' = get_transaction_count(addr, id)
    /\ UNCHANGED <<blockchain, account_balances>>

CallGetTransactionByBlockNumberAndIndex(n, i) ==
    /\ lastCall' = Call("get_transaction_by_block_number_and_index", <<n, i>>)
    /\ lastResult' = get_transaction_by_block_number_and_index(blockchain, n, i)
    /\ UNCHANGED <<blockchain, account_balances>>

CallGetTransactionByBlockHashAndIndex(n, i) ==
    /\ lastCall' = Call("get_transaction_by_block_hash_and_index", <<n, i>>)
    /\ lastResult' = get_transaction_by_block_hash_and_index(blockchain, n, i)
    /\ UNCHANGED <<blockchain, account_balances>>

\* the block operations and the stubs over a growing chain
Next ==
    \/ \E h \in Hashes, ts \in Timestamps : AppendBlock(h, ts)
    \/ CallBlockNumber
    \/ \E h \in HashInputs : CallGetBlockByHash(h)
    \/ \E n \in NumberInputs : CallEthGetBlockByNumber(n)
    \/ \E tx \in TxHashInputs : CallGetTransactionByHash(tx)
    \/ \E tx \in TxHashInputs : CallGetTransactionReceipt(tx)
    \/ \E addr \in Accounts, id \in TagInputs : CallGetTransactionCount(addr, id)
    \/ \E n \in TxBlockInputs, i \in TxIndexInputs :
            CallGetTransactionByBlockNumberAndIndex(n, i)
    \/ \E n \in TxBlockInputs, i \in TxIndexInputs :
            CallGetTransactionByBlockHashAndIndex(n, i)

Spec == Init /\ [][Next]_vars

BalanceIdInputs ==
    TagInputs \cup { PyInt(1), PyStr(<<"0", "x", "1">>), PyStr(<<"0", "x", "2">>),
                     PyStr(<<"1">>), PyStr(Prefix0x) }

\* the balance query over tables the node has filled: the tables grow
\* until the first call and are then read
NextBalance ==
    \/ /\ lastCall.op = "none"
       /\ Len(blockchain) < Len(HashOrder)
       /\ \E ts \in Timestamps : AppendBlock(HashOrder[Len(blockchain) + 1], ts)
    \/ /\ lastCall.op = "none"
       /\ \E m \in Movements, bid \in 1 .. MaxBlocks : AppendBalance(m, bid)
    \/ \E addr \in Accounts, id \in BalanceIdInputs : CallGetBalance(addr, id)

SpecBalance == Init /\ [][NextBalance]_vars

(***************************************************************************)
(* Vocabulary of the properties.                                           *)
(***************************************************************************)
\* the recorded call read the tables as they are now (rows are only appended)
Fresh == lastCall.at = StoreSize

Called(op) == lastCall.op = op /\ Fresh

\* what a caller should see of a stored row
RecordAsBlock(r) ==
    IF r.prev_hash = GENESIS
    THEN [kind |-> "block", number |-> r.id - 1, timestamp |-> r.timestamp,
          hash |-> FromHex(r.block_hash).v]
    ELSE [kind |-> "block", number |-> r.id - 1, timestamp |-> r.timestamp,
          hash |-> FromHex(r.block_hash).v, parentHash |-> FromHex(r.prev_hash).v]

StorageKeys == { r.id : r \in Rows(blockchain) }

MaxStorageKey == CHOOSE k \in StorageKeys : \A j \in StorageKeys : j <= k

MinStorageKey == CHOOSE k \in StorageKeys : \A j \in StorageKeys : k <= j

RowWithKey(k) == CHOOSE r \in Rows(blockchain) : r.id = k

\* 10 times the movements of native currency of addr up to storage key k
ScaledBalance(addr, k) == 10 * LedgerBalance(account_balances, addr, 1, k)

\* a digest h, bare or prefixed, that some row carries
HashIsStored(h) ==
    \E r \in Rows(blockchain) : h = r.block_hash \/ h = Prefix0x \o r.block_hash

RecordExistsFor(id) ==
    IF id = PyStr(LATEST) THEN blockchain # <<>>
    ELSE IF id = PyStr(EARLIEST) THEN 1 \in StorageKeys
    ELSE id.v + 1 \in StorageKeys

\* the four transaction lookups
StubLookups ==
    { "get_transaction_by_hash", "get_transaction_receipt",
      "get_transaction_by_block_number_and_index",
      "get_transaction_by_block_hash_and_index" }

\* an append changes no answer already given and lowers no block number
AppendKeepsAnswers ==
    /\ \A n \in 0 .. MaxBlocks :
          eth_get_block_by_number(blockchain, PyInt(n)).kind = "block"
              => eth_get_block_by_number(blockchain', PyInt(n))
                    = eth_get_block_by_number(blockchain, PyInt(n))
    /\ block_number(blockchain').v >= block_number(blockchain).v

\* the record a caller was given is what the same call gives after the step
RecordedAnswerKept ==
    (lastCall'.op = "eth_get_block_by_number" /\ lastCall'.args[1].t = "int"
        /\ lastResult'.kind = "block")
    => eth_get_block_by_number(blockchain', lastCall'.args[1]) = lastResult'

\* result is the byte string of the quantity n
BalanceIs(result, n) == result.kind = "bytes" /\ BytesValue(result.v) = n

\* the identifiers the claim sends to the head: tags, decimal strings, numbers
C7_HeadIdentifiers == { PyStr(LATEST), PyStr(PENDING), PyStr(<<"1">>), PyInt(1) }

\* strings of the model that is_hex accepts, and their base-16 values
C7_HexStringValue ==
    (<<"0", "x", "1">> :> 1) @@ (<<"0", "x", "2">> :> 2) @@ (<<"1">> :> 1)

(***************************************************************************)
(* C1.  For every record r of the blockchain table,                        *)
(* eth_get_block_by_number(id(r) - 1) returns a block whose number is      *)
(* id(r) - 1 and whose hash, timestamp and parentHash are those of r: that *)
(* record and no other row.                                                *)
(***************************************************************************)
C1_BlockByNumberIsThatRecord ==
    /\ \A r \in Rows(blockchain) :
          LET b == eth_get_block_by_number(blockchain, PyInt(r.id - 1))
          IN  /\ b = RecordAsBlock(r)
              /\ b.number = r.id - 1
              /\ b.timestamp = r.timestamp
    /\ (Called("eth_get_block_by_number") /\ lastCall.args[1].t = "int"
            /\ lastCall.args[1].v + 1 \in StorageKeys)
        => lastResult = RecordAsBlock(RowWithKey(lastCall.args[1].v + 1))

C1_Witness ==
    /\ Called("eth_get_block_by_number")
    /\ lastCall.args[1] = PyInt(1)
    /\ Len(blockchain) >= 3
    /\ lastResult = RecordAsBlock(blockchain[2])
    /\ blockchain[1].timestamp # blockchain[2].timestamp

(***************************************************************************)
(* C3.  The block returned for the genesis record (smallest storage key)   *)
(* has no parentHash field; the block returned for every other record has  *)
(* a parentHash equal to the block_hash of the record with the preceding   *)
(* storage key.                                                            *)
(***************************************************************************)
C3_ParentHashOnlyAfterGenesis ==
    \A r \in Rows(blockchain) :
        LET b == get_block_by_hash(blockchain, PyStr(r.block_hash))
            n == eth_get_block_by_number(blockchain, PyInt(r.id - 1))
        IN  /\ b.kind = "block"
            /\ n = b
            /\ IF r.id = MinStorageKey
               THEN "parentHash" \notin DOMAIN b
               ELSE /\ "parentHash" \in DOMAIN b
                    /\ b.parentHash = FromHex(RowWithKey(r.id - 1).block_hash).v

C3_Witness ==
    /\ Called("get_block_by_hash")
    /\ Len(blockchain) >= 2
    /\ lastCall.args[1] = PyStr(blockchain[2].block_hash)
    /\ "parentHash" \in DOMAIN lastResult
    /\ lastResult.parentHash = FromHex(blockchain[1].block_hash).v
    /\ "parentHash" \notin DOMAIN get_block_by_hash(blockchain, PyStr(blockchain[1].block_hash))

C5_BlockNumberIsMaxKeyMinusOne ==
    /\ block_number(blockchain) =
          IF blockchain = <<>> THEN IntResult(0) ELSE IntResult(MaxStorageKey - 1)
    /\ Called("block_number") => lastResult = block_number(blockchain)

C5_Witness ==
    /\ Called("block_number")
    /\ Len(blockchain) = 3
    /\ lastResult = IntResult(2)

(***************************************************************************)
(* C6.  On a non-empty table eth_get_block_by_number("latest") returns the *)
(* record with the maximum storage key, which is the block that            *)
(* eth_get_block_by_number(block_number()) returns.                        *)
(***************************************************************************)
C6_LatestIsHead ==
    blockchain # <<>> =>
        LET b == eth_get_block_by_number(blockchain, PyStr(LATEST))
        IN  /\ b = RecordAsBlock(RowWithKey(MaxStorageKey))
            /\ b = eth_get_block_by_number(blockchain, PyInt(block_number(blockchain).v))
            /\ Called("eth_get_block_by_number") /\ lastCall.args[1] = PyStr(LATEST)
                  => lastResult = b

C6_Witness ==
    /\ Called("eth_get_block_by_number")
    /\ lastCall.args[1] = PyStr(LATEST)
    /\ Len(blockchain) >= 2
    /\ lastResult = RecordAsBlock(blockchain[Len(blockchain)])

(***************************************************************************)
(* C8.  Hash lookup is prefix-insensitive: for every stored hex digest h,  *)
(* get_block_by_hash("0x" + h) and get_block_by_hash(h) return the same    *)
(* record.                                                                 *)
(***************************************************************************)
C8_PrefixInsensitive ==
    \A r \in Rows(blockchain) :
        /\ get_block_by_hash(blockchain, PyStr(Prefix0x \o r.block_hash))
              = get_block_by_hash(blockchain, PyStr(r.block_hash))
        /\ get_block_by_hash(blockchain, PyStr(r.block_hash)) = RecordAsBlock(r)

C8_Witness ==
    /\ Called("get_block_by_hash")
    /\ Len(blockchain) >= 2
    /\ lastCall.args[1] = PyStr(Prefix0x \o blockchain[2].block_hash)
    /\ lastResult = RecordAsBlock(blockchain[2])

(***************************************************************************)
(* C9.  The transaction stubs give fixed results for every input and every *)
(* table: the four lookups always return absent and get_transaction_count  *)
(* always returns 0; none returns a block or depends on the tables.        *)
(***************************************************************************)
C9_StubsAreFixed ==
    /\ lastCall.op \in StubLookups => lastResult = None
    /\ lastCall.op = "get_transaction_count" => lastResult = IntResult(0)
    /\ \A n \in TxBlockInputs, i \in TxIndexInputs :
          /\ get_transaction_by_block_number_and_index(blockchain, n, i) = None
          /\ get_transaction_by_block_hash_and_index(blockchain, n, i) = None

C9_Witness ==
    /\ Called("get_transaction_by_block_number_and_index")
    /\ lastCall.args[1] = PyStr(<<"a", "a">>)
    /\ <<"a", "a">> \in UsedHashes
    /\ lastResult = None

(***************************************************************************)
(* C10.  Results are stable under appends: once eth_get_block_by_number(n) *)
(* has returned a record for an integer n it returns the same record after *)
(* every later append, and block_number() never decreases.                 *)
(***************************************************************************)
C10_StableUnderAppends ==
    [][blockchain' # blockchain => AppendKeepsAnswers /\ RecordedAnswerKept]_vars

C10_Witness ==
    /\ lastCall.op = "eth_get_block_by_number"
    /\ lastCall.args[1] = PyInt(1)
    /\ lastCall.at[1] = 2
    /\ Len(blockchain) = 3
    /\ lastResult = RecordAsBlock(blockchain[2])
    /\ eth_get_block_by_number(blockchain, PyInt(1)) = lastResult

(***************************************************************************)
(* C2.  For every address, every N >= 0 and every contents of              *)
(* account_balances, get_balance(addr, hex(N)) equals 10 times the sum of  *)
(* amount over the entries of that address with currency_type = 1 and      *)
(* block_id <= N + 1, and get_balance(addr, "earliest") equals the same    *)
(* sum over the entries with block_id <= 1.                                *)
(***************************************************************************)
C2_BalanceCountsThroughKeyNPlusOne ==
    \A addr \in Accounts :
        /\ \A N \in 0 .. MaxBlocks :
              BalanceIs(get_balance(blockchain, account_balances, addr, PyStr(Hex(N))),
                        ScaledBalance(addr, N + 1))
        /\ BalanceIs(get_balance(blockchain, account_balances, addr, PyStr(EARLIEST)),
                     ScaledBalance(addr, 1))

(***************************************************************************)
(* C7.  get_balance resolves its block identifier by the narrower rule:    *)
(* "earliest" resolves to 0, an explicit hex number to its parsed value,   *)
(* and every other identifier, decimal strings and every other tag         *)
(* included, to block_number(), so that for such an identifier             *)
(* get_balance(addr, id) equals get_balance(addr, "latest").               *)
(***************************************************************************)
C7_OthersResolveToHead ==
    \A addr \in Accounts :
        /\ get_balance(blockchain, account_balances, addr, PyStr(EARLIEST))
              = HexBytes(Hex(ScaledBalance(addr, 0)))
        /\ \A id \in C7_HeadIdentifiers :
              get_balance(blockchain, account_balances, addr, id)
                  = get_balance(blockchain, account_balances, addr, PyStr(LATEST))

(***************************************************************************)
(* C7 as amended.  "earliest" resolves to 0; a string of hex digits with   *)
(* or without a 0x prefix, which includes a string of decimal digits, is   *)
(* read in base 16 (a bare "0x" raises); every other identifier (a tag     *)
(* that is not hex, a number) resolves to block_number().                  *)
(***************************************************************************)
C7_HexStringsAreParsed ==
    \A addr \in Accounts :
        /\ BalanceIs(get_balance(blockchain, account_balances, addr, PyStr(EARLIEST)),
                     ScaledBalance(addr, 0))
        /\ \A s \in DOMAIN C7_HexStringValue :
              BalanceIs(get_balance(blockchain, account_balances, addr, PyStr(s)),
                        ScaledBalance(addr, C7_HexStringValue[s]))
        /\ get_balance(blockchain, account_balances, addr, PyStr(Prefix0x)) = Raise
        /\ \A id \in {PyStr(LATEST), PyStr(PENDING), PyInt(1)} :
              /\ get_balance(blockchain, account_balances, addr, id)
                    = get_balance(blockchain, account_balances, addr, PyStr(LATEST))
              /\ BalanceIs(get_balance(blockchain, account_balances, addr, id),
                           ScaledBalance(addr, block_number(blockchain).v))
        /\ (Called("get_balance") /\ lastCall.args[1] = addr)
              => lastResult = get_balance(blockchain, account_balances, addr, lastCall.args[2])

C7_Witness ==
    /\ Called("get_balance")
    /\ lastCall.args = <<"acctA", PyStr(<<"1">>)>>
    /\ Len(blockchain) = 3
    /\ BalanceIs(lastResult, 10)
    /\ BalanceIs(get_balance(blockchain, account_balances, "acctA", PyStr(LATEST)), 270)

====
